---- MODULE Spec2Model ----
(***************************************************************************)
(* Model of langchain/docstore/artifacts.py: the file-system artifact      *)
(* layer (payload files + in-memory metadata index with a JSON snapshot)   *)
(* and the caching interceptor that wraps a document transformer.          *)
(***************************************************************************)
EXTENDS Integers, Sequences, FiniteSets, TLC

(***************************************************************************)
(* Bounds of the model.                                                    *)
(***************************************************************************)
\* longest `documents` argument of add / transform_documents
MaxBatch == 2
\* most documents the wrapped transformer returns for one input
MaxOutputs == 2
\* cap on len(data["artifacts"]); operations that would exceed it are not taken
MaxRecords == 3

(***************************************************************************)
(* Values.  custom_id "is set to uuid if not provided" (Artifact, l.89-92) *)
(* so logical ids and hashes live in one value space.                      *)
(***************************************************************************)
Hashes == {"hA", "hB", "hC"}
Keys == {"x", "y"} \cup Hashes

\* Document (external): id, hash_, parent_hashes, metadata and raw content.
Doc(id, h, parents, content) ==
    [id |-> id, hash_ |-> h, parent_hashes |-> parents,
     metadata |-> "m", page_content |-> content]

\* a source document
DocA == Doc("x", "hA", <<>>, "a")
\* a child of DocA with an id of its own
DocB == Doc("y", "hB", <<"hA">>, "b")
\* a child of DocA that keeps its parent's id
DocC == Doc("x", "hC", <<"hA">>, "c")
\* a source document with DocB's content (so DocB's hash) and a defaulted id
DocE == Doc("hB", "hB", <<>>, "b")

Docs == {DocA, DocB, DocC, DocE}

\* sequences over S of length 0..n
RECURSIVE SeqsUpTo(_, _)
SeqsUpTo(S, n) ==
    IF n = 0 THEN {<<>>}
    ELSE LET shorter == SeqsUpTo(S, n - 1)
         IN  shorter \cup {Append(s, x) : s \in {t \in shorter : Len(t) = n - 1}, x \in S}

Batches == SeqsUpTo(Docs, MaxBatch) \ {<<>>}
\* what transform_documents is given: a source document, and a document that an
\* earlier step produced
Inputs == SeqsUpTo({DocA, DocB}, MaxBatch) \ {<<>>}
TransformerOutputs == SeqsUpTo(Docs, MaxOutputs)

VARIABLES
    files,           \* root/<hash> -> file content
    metadata_json,   \* content of root/metadata.json
    metadata_store,  \* FileSystemArtifactLayer.metadata_store (InMemoryStore)
    call,            \* the activation of transform_documents in progress, or Idle
    lastOp,          \* the last add / transform_documents that completed
    reply,           \* what the query just made returned, until the caller took it
    procs,           \* the processes that each run a layer of their own on the root
    gen,             \* the generator a call of select returned, while it is suspended
    json_module,     \* what the name json is bound to by the import of l.78
    constructed      \* whether FileSystemArtifactLayer(root) returned a layer

vars == <<files, metadata_json, metadata_store, call, lastOp, reply, procs, gen,
          json_module, constructed>>

(***************************************************************************)
(* File contents.                                                          *)
(***************************************************************************)
NoFile == <<"absent">>
\* what open(path, "w") leaves when the write after it does not complete
Truncated == <<"truncated">>

serialize_document(d) ==
    <<"doc", d.id, d.hash_, d.parent_hashes, d.metadata, d.page_content>>

deserialize_document(p) ==
    [id |-> p[2], hash_ |-> p[3], parent_hashes |-> p[4],
     metadata |-> p[5], page_content |-> p[6]]

IsPayload(p) == Len(p) = 6

Ok(value) == [status |-> "ok", value |-> value]
Raised(error, value) == [status |-> error, value |-> value]

\* The text of {"artifacts": [{custom_id, uuid, parent_uuids, metadata}]} as
\* the standard library's json writes it, and the value it reads from a text.
json_object(a) == <<a.custom_id, a.uuid, a.parent_uuids, a.metadata>>
json_dumps(data) ==
    <<"json", [i \in 1..Len(data.artifacts) |-> json_object(data.artifacts[i])]>>

json_artifact(o) ==
    [custom_id |-> o[1], uuid |-> o[2], parent_uuids |-> o[3], metadata |-> o[4]]
json_loads(text) ==
    [artifacts |-> [i \in 1..Len(text[2]) |-> json_artifact(text[2][i])]]

\* a complete JSON document
IsJson(text) == Len(text) = 2

\* l.78 rebinds the name json of l.61 to langchain.output_parsers.json: a
\* module that offers dump and load as the standard library's json does, or
\* one that has neither attribute.
JsonModules == {"dump_load", "no_dump_load"}

\* json.dump(self.data, f), l.164: what it writes into the file just opened
json_dump(data) ==
    IF json_module = "no_dump_load" THEN Raised("AttributeError", <<>>)
    ELSE Ok(json_dumps(data))

\* json.load(f), l.186, on a file that holds text
json_load(text) ==
    IF json_module = "no_dump_load" THEN Raised("AttributeError", <<>>)
    ELSE IF ~IsJson(text) THEN Raised("JSONDecodeError", <<>>)
    ELSE Ok(json_loads(text))

(***************************************************************************)
(* Length in characters of a file, and what a write at offset 0 through a  *)
(* handle opened earlier leaves of a file that another handle has written  *)
(* since: the text written, followed by what the file held beyond it.      *)
(***************************************************************************)
RECURSIVE Sum(_)
Sum(ns) == IF ns = <<>> THEN 0 ELSE Head(ns) + Sum(Tail(ns))

\* "s"
StringLen(s) == Len(s) + 2
\* [item, item, ...]
ListLen(ns) == IF ns = <<>> THEN 2 ELSE 2 + Sum(ns) + 2 * (Len(ns) - 1)
StringsLen(ss) == ListLen([i \in 1..Len(ss) |-> StringLen(ss[i])])

PayloadLen(p) ==
    ListLen(<<StringLen(p[1]), StringLen(p[2]), StringLen(p[3]), StringsLen(p[4]),
              StringLen(p[5]), StringLen(p[6])>>)

\* {"custom_id": .., "uuid": .., "parent_uuids": .., "metadata": ..}: the
\* braces, the four keys with their colons and the three separators are 57
\* characters
ObjectLen(o) ==
    57 + StringLen(o[1]) + StringLen(o[2]) + StringsLen(o[3]) + StringLen(o[4])

\* {"artifacts": [..]}: 15 characters around the list
SnapshotLen(text) ==
    15 + ListLen([i \in 1..Len(text[2]) |-> ObjectLen(text[2][i])])

\* a file of n characters that is neither empty nor one whole text
Garbled(n) == <<"garbled", "characters", n>>

Size(file) ==
    IF Len(file) = 1 THEN 0
    ELSE IF IsPayload(file) THEN PayloadLen(file)
    ELSE IF IsJson(file) THEN SnapshotLen(file)
    ELSE file[3]

Overwrite(existing, text) ==
    IF Size(existing) <= Size(text) THEN text ELSE Garbled(Size(existing))

(***************************************************************************)
(* Python dicts as functions.                                              *)
(***************************************************************************)
EmptyDict == <<>>
DictSet(d, k, v) == [x \in (DOMAIN d) \cup {k} |-> IF x = k THEN v ELSE d[x]]

(***************************************************************************)
(* InMemoryStore                                                           *)
(***************************************************************************)
\* {key(artifact): artifact for artifact in artifacts}: the last one wins
RECURSIVE DictOf(_, _, _)
DictOf(artifacts, field, n) ==
    IF n = 0 THEN EmptyDict
    ELSE DictSet(DictOf(artifacts, field, n - 1), artifacts[n][field], artifacts[n])

InMemoryStore(data) ==
    [artifacts     |-> data.artifacts,
     artifact_uuid |-> DictOf(data.artifacts, "uuid", Len(data.artifacts)),
     artifact_ids  |-> DictOf(data.artifacts, "custom_id", Len(data.artifacts))]

\* add that keeps the index entry a key already has (dict.setdefault)
InMemoryStore_add_keeping_first(ms, artifact) ==
    [artifacts     |-> Append(ms.artifacts, artifact),
     artifact_uuid |-> IF artifact.uuid \in DOMAIN ms.artifact_uuid
                       THEN ms.artifact_uuid
                       ELSE DictSet(ms.artifact_uuid, artifact.uuid, artifact),
     artifact_ids  |-> IF artifact.custom_id \in DOMAIN ms.artifact_ids
                       THEN ms.artifact_ids
                       ELSE DictSet(ms.artifact_ids, artifact.custom_id, artifact)]

InMemoryStore_add(ms, artifact) ==
    [artifacts     |-> Append(ms.artifacts, artifact),
     artifact_uuid |-> DictSet(ms.artifact_uuid, artifact.uuid, artifact),
     artifact_ids  |-> DictSet(ms.artifact_ids, artifact.custom_id, artifact)]

\* exists_by_id looking the ids up in the hash index
exists_by_id_in_uuid_index(ms, ids) ==
    [i \in 1..Len(ids) |-> ids[i] \in DOMAIN ms.artifact_uuid]

exists_by_id(ms, ids) ==
    [i \in 1..Len(ids) |-> ids[i] \in DOMAIN ms.artifact_ids]

exists_by_uuid(ms, uuids) ==
    [i \in 1..Len(uuids) |-> uuids[i] \in DOMAIN ms.artifact_ids]

\* from_file(path) where path holds text, l.182-187: open, json.load, cls
from_file(text) ==
    IF text = NoFile THEN Raised("FileNotFoundError", <<>>)
    ELSE LET content == json_load(text)
         IN  IF content.status # "ok" THEN Raised(content.status, <<>>)
             ELSE Ok(InMemoryStore(content.value))

(***************************************************************************)
(* Selector (langchain.docstore.base): optional clauses ids, hashes,       *)
(* parent_hashes.  A clause is None (given = FALSE) or a collection.       *)
(***************************************************************************)
None == [given |-> FALSE, values |-> {}]
Some(S) == [given |-> TRUE, values |-> S]
\* Python truth value of an Optional collection
Truthy(clause) == clause.given /\ clause.values # {}

Selector(ids, hashes, parent_hashes) ==
    [ids |-> ids, hashes |-> hashes, parent_hashes |-> parent_hashes]

Range(s) == {s[i] : i \in 1..Len(s)}

\* the ids clause of select, l.147
SelectIdsClause(artifact, selector) ==
    Truthy(selector.ids) /\ artifact.uuid \in selector.ids.values

\* the hashes clause of select, l.151
SelectHashesClause(artifact, selector) ==
    Truthy(selector.hashes) /\ artifact.uuid \in selector.hashes.values

\* next() on the generator of select whose loop goes on at artifacts[i]: it
\* yields the uuid of artifacts[at], ends ("stop"), or raises
RECURSIVE select_next(_, _, _)
select_next(artifacts, selector, i) ==
    IF i > Len(artifacts) THEN [status |-> "stop", value |-> "", at |-> i]
    ELSE LET artifact == artifacts[i]
             yield == [status |-> "yield", value |-> artifact.uuid, at |-> i]
         IN  IF SelectIdsClause(artifact, selector) THEN yield
             ELSE IF SelectHashesClause(artifact, selector) THEN yield
             ELSE IF artifact.parent_uuids = <<>>
             THEN select_next(artifacts, selector, i + 1)
             \* set.intersection(None)
             ELSE IF ~selector.parent_hashes.given
             THEN [status |-> "TypeError", value |-> "", at |-> i]
             ELSE IF Range(artifact.parent_uuids) \cap selector.parent_hashes.values # {}
             THEN yield
             ELSE select_next(artifacts, selector, i + 1)

\* the generator of select consumed in one go (list(..), extend(..)), run to
\* its end or to the first exception; value is what it has yielded by then
RECURSIVE select_from(_, _, _, _)
select_from(artifacts, selector, i, yielded) ==
    LET step == select_next(artifacts, selector, i)
    IN  IF step.status = "yield"
        THEN select_from(artifacts, selector, step.at + 1, Append(yielded, step.value))
        ELSE IF step.status = "stop" THEN Ok(yielded)
        ELSE Raised(step.status, yielded)

select(ms, selector) == select_from(ms.artifacts, selector, 1, <<>>)

remove_by_uuids(ms, uuids) == Raised("NotImplementedError", <<>>)

\* remove: list(self.select(selector)) and then remove_by_uuids
remove(ms, selector) ==
    LET uuids == select(ms, selector)
    IN  IF uuids.status # "ok" THEN Raised(uuids.status, <<>>)
        ELSE remove_by_uuids(ms, uuids.value)

(***************************************************************************)
(* FileSystemArtifactLayer                                                 *)
(***************************************************************************)
\* root: PathLike, a Path or a str
Roots == {"Path", "str"}

\* __init__ on a root whose metadata.json holds text (NoFile: there is none):
\* the metadata_store of the layer, or the exception.  l.200 divides the
\* argument root, not self.root, by "metadata.json".
FileSystemArtifactLayer(root, text) ==
    IF root = "str" THEN Raised("TypeError", <<>>) ELSE from_file(text)

Artifact(document) ==
    [custom_id    |-> document.id,
     uuid         |-> document.hash_,
     parent_uuids |-> document.parent_hashes,
     metadata     |-> document.metadata]

\* Where an add may fail.  at = 0: nowhere.  For document number `at`:
\* "open" (open(file_path, "w") raises), "write" (serialize_document or
\* f.write raises after the file was opened for writing), "append"
\* (building or appending the record raises).  For the snapshot, at =
\* Len(documents) + 1: "open" and "write" (json.dump raises).
NoFault == [at |-> 0, kind |-> "none"]
Faults(documents) ==
    {NoFault}
    \cup {[at |-> k, kind |-> kind] :
            k \in 1..Len(documents), kind \in {"open", "write", "append"}}
    \cup {[at |-> Len(documents) + 1, kind |-> kind] : kind \in {"open", "write"}}

\* the loop of add over documents[i..], l.219-232
RECURSIVE add_documents(_, _, _, _, _)
add_documents(fs, ms, documents, i, fault) ==
    IF i > Len(documents) THEN [files |-> fs, metadata_store |-> ms, status |-> "ok"]
    ELSE LET document == documents[i]
             hit == fault.at = i
         IN  IF hit /\ fault.kind = "open"
             THEN [files |-> fs, metadata_store |-> ms, status |-> "OSError"]
             ELSE IF hit /\ fault.kind = "write"
             THEN [files |-> [fs EXCEPT ![document.hash_] = Truncated],
                   metadata_store |-> ms, status |-> "OSError"]
             ELSE LET written ==
                        [fs EXCEPT ![document.hash_] = serialize_document(document)]
                  IN  IF hit /\ fault.kind = "append"
                      THEN [files |-> written, metadata_store |-> ms,
                            status |-> "Error"]
                      ELSE add_documents(written,
                                         InMemoryStore_add(ms, Artifact(document)),
                                         documents, i + 1, fault)

\* save that returns without having written the file
save_nothing(ms, old, fault) == [text |-> old, status |-> "ok"]

\* InMemoryStore.save, l.161-164: the new content of the file at path
save(ms, old, fault) ==
    LET dumped == json_dump([artifacts |-> ms.artifacts])
    IN  IF fault.kind = "open" THEN [text |-> old, status |-> "OSError"]
        \* the file is open and empty; json.dump is looked up, then called
        ELSE IF dumped.status # "ok" THEN [text |-> Truncated, status |-> dumped.status]
        ELSE IF fault.kind = "write" THEN [text |-> Truncated, status |-> "Error"]
        ELSE [text |-> dumped.value, status |-> "ok"]

\* FileSystemArtifactLayer.add on the layer [files, metadata_json, metadata_store]
add(layer, documents, fault) ==
    LET loop == add_documents(layer.files, layer.metadata_store, documents, 1, fault)
    IN  IF loop.status # "ok"
        THEN [files |-> loop.files, metadata_json |-> layer.metadata_json,
              metadata_store |-> loop.metadata_store, status |-> loop.status]
        ELSE LET saved == save(loop.metadata_store, layer.metadata_json,
                               IF fault.at = Len(documents) + 1 THEN fault ELSE NoFault)
             IN  [files |-> loop.files, metadata_json |-> saved.text,
                  metadata_store |-> loop.metadata_store, status |-> saved.status]

\* get_matching_documents, run to its end or to the first exception
RECURSIVE read_documents(_, _, _, _)
read_documents(fs, uuids, i, yielded) ==
    IF i > Len(uuids) THEN Ok(yielded)
    ELSE IF fs[uuids[i]] = NoFile THEN Raised("FileNotFoundError", yielded)
    ELSE IF ~IsPayload(fs[uuids[i]]) THEN Raised("ValueError", yielded)
    ELSE read_documents(fs, uuids, i + 1,
                        Append(yielded, deserialize_document(fs[uuids[i]])))

get_matching_documents(layer, selector) ==
    LET uuids == select(layer.metadata_store, selector)
        found == read_documents(layer.files, uuids.value, 1, <<>>)
    IN  IF found.status # "ok" THEN found
        ELSE IF uuids.status # "ok" THEN Raised(uuids.status, found.value)
        ELSE found

(***************************************************************************)
(* ArtifactLayer (langchain.docstore.base): the two methods the            *)
(* interceptor calls that FileSystemArtifactLayer does not define.         *)
(***************************************************************************)
exists(layer, ids) == exists_by_id(layer.metadata_store, ids)

get_child_documents(layer, hash_) ==
    get_matching_documents(layer, Selector(None, None, Some({hash_})))

(***************************************************************************)
(* CachingInterceptor.transform_documents, one step per loop iteration.    *)
(***************************************************************************)
\* new_docs put after the items instead of before them
extend_in_front(new_docs, items) == items \o new_docs

\* new_docs.extend(items)
extend(new_docs, items) == new_docs \o items

\* [document.id for document in documents]
DocumentIds(documents) == [i \in 1..Len(documents) |-> documents[i].id]

\* no earlier call to compare with
NoPrevious == [given |-> FALSE, value |-> <<>>, invoked |-> <<>>]

Idle ==
    [active |-> FALSE, documents |-> <<>>, existence |-> <<>>, i |-> 0,
     new_docs |-> <<>>, invoked |-> <<>>, parts |-> <<>>, previous |-> NoPrevious]

\* the summary of a completed (returned or raised) operation: for
\* transform_documents, c is the activation that completed
Completed(op, status, value, c) ==
    [op |-> op, args |-> c.documents, status |-> status, value |-> value,
     existence |-> c.existence, invoked |-> c.invoked, parts |-> c.parts,
     previous |-> c.previous]

NoOp == Completed("none", "ok", <<>>, Idle)

Layer == [files |-> files, metadata_json |-> metadata_json,
          metadata_store |-> metadata_store]

SetLayer(after) ==
    /\ files' = after.files
    /\ metadata_json' = after.metadata_json
    /\ metadata_store' = after.metadata_store

Room == MaxRecords - Len(metadata_store.artifacts)

NoReply == [op |-> "none", args |-> <<>>, status |-> "ok", value |-> <<>>]
Reply(op, args, result) ==
    [op |-> op, args |-> args, status |-> result.status, value |-> result.value]

\* no generator of select is held
NoGen == [active |-> FALSE, selector |-> Selector(None, None, None),
          at |-> 0, yielded |-> <<>>]

\* there is a layer, and no call on it is under way
Quiet == constructed /\ ~call.active /\ reply = NoReply

\* Two processes on one root.  pc: "new" (no layer yet), "reading" (from_file
\* has read `text` from metadata.json and not yet met the end of the file),
\* "ready" (layer constructed), "loop" (in add, before documents[i]), "payload" (the payload
\* file of documents[i] is open for writing), "saving" (save has opened
\* metadata.json for writing), "done" (add has returned), "raised" (add has
\* raised).
Procs == {"p1", "p2"}
NotRead == <<"unread">>
NewProcess ==
    [pc |-> "new", metadata_store |-> InMemoryStore([artifacts |-> <<>>]),
     documents |-> <<>>, i |-> 0, text |-> NotRead, loaded |-> NotRead]

\* The roots a layer is constructed on: no metadata.json, an empty snapshot,
\* or what an earlier add([DocA]) left (its payload file and its record).
Snapshots == {<<>>, <<Artifact(DocA)>>}

\* The state after FileSystemArtifactLayer(root) on such a root: the layer, or
\* no layer and the exception (metadata_store is then an empty index nothing
\* reads).
Init ==
    /\ metadata_json \in {NoFile} \cup {json_dumps([artifacts |-> a]) : a \in Snapshots}
    /\ files = [h \in Hashes |->
                  IF IsJson(metadata_json)
                     /\ \E k \in 1..Len(json_loads(metadata_json).artifacts) :
                           json_loads(metadata_json).artifacts[k].uuid = h
                  THEN serialize_document(DocA) ELSE NoFile]
    /\ json_module \in JsonModules
    /\ \E root \in Roots :
          LET layer == FileSystemArtifactLayer(root, metadata_json)
          IN  /\ constructed = (layer.status = "ok")
              /\ metadata_store = IF layer.status = "ok" THEN layer.value
                                  ELSE InMemoryStore([artifacts |-> <<>>])
              /\ lastOp = IF layer.status = "ok" THEN NoOp
                          ELSE Completed("open", layer.status, <<>>, Idle)
    /\ call = Idle
    /\ reply = NoReply
    /\ procs = [p \in Procs |-> NewProcess]
    /\ gen = NoGen

\* FileSystemArtifactLayer.add(documents), called directly
Add(documents, fault) ==
    /\ Quiet
    /\ Len(documents) <= Room
    /\ LET after == add(Layer, documents, fault)
       IN  /\ SetLayer(after)
           /\ lastOp' = Completed("add", after.status, <<>>, Idle)
    /\ UNCHANGED <<call, reply, procs, gen, json_module, constructed>>

\* FileSystemArtifactLayer(root) on the same root: a restart of the process
\* (when the constructor raises, the layer there was stays in use)
Reopen(root) ==
    /\ Quiet
    /\ ~gen.active
    /\ LET layer == FileSystemArtifactLayer(root, metadata_json)
       IN  /\ metadata_store' = IF layer.status = "ok" THEN layer.value
                                 ELSE metadata_store
           /\ lastOp' = Completed("open", layer.status, <<>>, Idle)
    /\ UNCHANGED <<files, metadata_json, call, reply, procs, gen, json_module, constructed>>

(***************************************************************************)
(* InMemoryStore.add and InMemoryStore.save called on layer.metadata_store *)
(* directly.                                                               *)
(***************************************************************************)
Artifacts == {Artifact(d) : d \in Docs}
SaveFaults == {NoFault} \cup {[at |-> 1, kind |-> kind] : kind \in {"open", "write"}}

StoreAdd(artifact) ==
    /\ Quiet
    /\ ~gen.active
    /\ Room >= 1
    /\ metadata_store' = InMemoryStore_add(metadata_store, artifact)
    /\ lastOp' = Completed("metadata_store.add", "ok", <<>>, Idle)
    /\ UNCHANGED <<files, metadata_json, call, reply, procs, gen, json_module, constructed>>

StoreSave(fault) ==
    /\ Quiet
    /\ ~gen.active
    /\ LET saved == save(metadata_store, metadata_json, fault)
       IN  /\ metadata_json' = saved.text
           /\ lastOp' = Completed("metadata_store.save", saved.status, <<>>, Idle)
    /\ UNCHANGED <<files, metadata_store, call, reply, procs, gen, json_module, constructed>>

(***************************************************************************)
(* Queries: the result is held in reply until Return.                      *)
(***************************************************************************)
KeySeqs == SeqsUpTo(Keys, MaxBatch) \ {<<>>}
Clauses == {None, Some({})} \cup {Some({k}) : k \in {"x", "hA", "hB"}}
Selectors == {Selector(i, h, p) : i \in Clauses, h \in Clauses, p \in Clauses}

\* a query made while no generator is held
Ask(r) ==
    /\ Quiet
    /\ ~gen.active
    /\ reply' = r
    /\ UNCHANGED <<files, metadata_json, metadata_store, call, lastOp, procs, gen, json_module, constructed>>

ExistsById(ids) == Ask(Reply("exists_by_id", ids, Ok(exists_by_id(metadata_store, ids))))

ExistsByUuid(uuids) ==
    Ask(Reply("exists_by_uuid", uuids, Ok(exists_by_uuid(metadata_store, uuids))))

\* g = select(selector): a generator, none of whose code has run
Select(selector) ==
    /\ Quiet
    /\ ~gen.active
    /\ gen' = [active |-> TRUE, selector |-> selector, at |-> 0, yielded |-> <<>>]
    /\ UNCHANGED <<files, metadata_json, metadata_store, call, lastOp, reply, procs,
                   json_module, constructed>>

\* next(g): the loop goes on, over the record list as it is now, to its next
\* yield; when it ends or raises the caller has its reply
SelectNext ==
    /\ Quiet
    /\ gen.active
    /\ LET step == select_next(metadata_store.artifacts, gen.selector, gen.at + 1)
       IN  IF step.status = "yield"
           THEN /\ gen' = [gen EXCEPT !.at = step.at,
                                      !.yielded = Append(@, step.value)]
                /\ UNCHANGED reply
           ELSE /\ gen' = NoGen
                /\ reply' = Reply("select", gen.selector,
                                  IF step.status = "stop" THEN Ok(gen.yielded)
                                  ELSE Raised(step.status, gen.yielded))
    /\ UNCHANGED <<files, metadata_json, metadata_store, call, lastOp, procs,
                   json_module, constructed>>

Remove(selector) == Ask(Reply("remove", selector, remove(metadata_store, selector)))

Return ==
    /\ reply # NoReply
    /\ reply' = NoReply
    /\ UNCHANGED <<files, metadata_json, metadata_store, call, lastOp, procs, gen, json_module, constructed>>

(***************************************************************************)
(* CachingInterceptor.transform_documents                                  *)
(***************************************************************************)
\* what the call that just returned gave, when it was given these documents
Previous(documents) ==
    IF lastOp.op = "transform_documents" /\ lastOp.status = "ok"
       /\ lastOp.args = documents
    THEN [given |-> TRUE, value |-> lastOp.value, invoked |-> lastOp.invoked]
    ELSE NoPrevious

\* up to the loop: the batched existence check, l.265-268
TransformBegin(documents) ==
    /\ Quiet
    /\ call' = [active |-> TRUE, documents |-> documents,
                existence |-> exists(Layer, DocumentIds(documents)),
                i |-> 1, new_docs |-> <<>>, invoked |-> <<>>, parts |-> <<>>,
                previous |-> Previous(documents)]
    /\ lastOp' = NoOp
    /\ UNCHANGED <<files, metadata_json, metadata_store, reply, procs, gen, json_module, constructed>>

Looping == call.active /\ call.i <= Len(call.documents)

Raise(status, c) ==
    /\ lastOp' = Completed("transform_documents", status, <<>>, c)
    /\ call' = Idle

\* one iteration with exists false, l.271-276: the transformer returns outputs
TransformMiss(outputs, fault) ==
    /\ Looping
    /\ ~call.existence[call.i]
    /\ Len(outputs) <= Room
    /\ LET document == call.documents[call.i]
           after == add(Layer, outputs, fault)
           c == [call EXCEPT !.invoked = Append(@, document)]
       IN  /\ SetLayer(after)
           /\ IF after.status # "ok" THEN Raise(after.status, c)
              ELSE /\ call' = [c EXCEPT !.i = @ + 1,
                                        !.new_docs = extend(@, outputs),
                                        !.parts = Append(@, outputs)]
                   /\ UNCHANGED lastOp
    /\ UNCHANGED <<reply, procs, gen, json_module, constructed>>

\* the transformer raises, is called a second time and raises again
TransformerRaisesAfterRetry ==
    /\ Looping
    /\ ~call.existence[call.i]
    /\ Raise("TransformerError",
             [call EXCEPT !.invoked = Append(Append(@, call.documents[call.i]),
                                             call.documents[call.i])])
    /\ UNCHANGED <<files, metadata_json, metadata_store, reply, procs, gen, json_module, constructed>>

\* one iteration with exists false in which the transformer raises
TransformerRaises ==
    /\ Looping
    /\ ~call.existence[call.i]
    /\ Raise("TransformerError",
             [call EXCEPT !.invoked = Append(@, call.documents[call.i])])
    /\ UNCHANGED <<files, metadata_json, metadata_store, reply, procs, gen, json_module, constructed>>

\* one iteration with exists true, l.277-280
TransformHit ==
    /\ Looping
    /\ call.existence[call.i]
    /\ LET children == get_child_documents(Layer, call.documents[call.i].hash_)
       IN  IF children.status # "ok" THEN Raise(children.status, call)
           ELSE /\ call' = [call EXCEPT !.i = @ + 1,
                                        !.new_docs = extend(@, children.value),
                                        !.parts = Append(@, children.value)]
                /\ UNCHANGED lastOp
    /\ UNCHANGED <<files, metadata_json, metadata_store, reply, procs, gen, json_module, constructed>>

\* return new_docs, l.282
TransformReturn ==
    /\ call.active
    /\ call.i > Len(call.documents)
    /\ lastOp' = Completed("transform_documents", "ok", call.new_docs, call)
    /\ call' = Idle
    /\ UNCHANGED <<files, metadata_json, metadata_store, reply, procs, gen, json_module, constructed>>

(***************************************************************************)
(* Two processes, each constructing a FileSystemArtifactLayer on the root  *)
(* and adding one batch.  A step is one file-system operation of the       *)
(* process together with the in-memory work that follows it.  What a       *)
(* process writes reaches the file when it closes it.                      *)
(***************************************************************************)
Others == <<metadata_store, call, lastOp, reply, gen, json_module, constructed>>

\* FileSystemArtifactLayer.__init__ up to the first read() of f.read() inside
\* json.load, l.185-186: it returns the file as it is now.  An empty file is
\* at its end at once, and json.load fails on the empty text.
ProcOpen(p, root) ==
    /\ procs[p].pc = "new"
    /\ LET layer == FileSystemArtifactLayer(root, metadata_json)
       IN  procs' = [procs EXCEPT ![p] =
              IF layer.status \notin {"ok", "JSONDecodeError"} THEN @
              ELSE IF Size(metadata_json) = 0
              THEN [@ EXCEPT !.loaded = metadata_json]
              ELSE [@ EXCEPT !.pc = "reading", !.text = metadata_json]]
    /\ UNCHANGED <<files, metadata_json, Others>>

\* what f.read() returns when its next read() gets what the file holds now
\* beyond the characters read so far (nothing, when the file is no longer)
read_on(text, file) ==
    IF Size(file) > Size(text) THEN Garbled(Size(file)) ELSE text

\* the rest of f.read(), then json.load and InMemoryStore(content)
ProcRead(p) ==
    /\ procs[p].pc = "reading"
    /\ LET text == read_on(procs[p].text, metadata_json)
           layer == from_file(text)
       IN  procs' = [procs EXCEPT ![p] =
              IF layer.status = "ok"
              THEN [@ EXCEPT !.pc = "ready", !.text = NotRead, !.loaded = text,
                             !.metadata_store = layer.value]
              ELSE [@ EXCEPT !.pc = "new", !.text = NotRead, !.loaded = text]]
    /\ UNCHANGED <<files, metadata_json, Others>>

\* add(documents) is called
ProcAdd(p, documents) ==
    /\ procs[p].pc = "ready"
    /\ Len(documents) <= MaxRecords - Len(procs[p].metadata_store.artifacts)
    /\ procs' = [procs EXCEPT ![p] =
          [@ EXCEPT !.pc = "loop", !.documents = documents, !.i = 1]]
    /\ UNCHANGED <<files, metadata_json, Others>>

\* open(file_path, "w"), l.222: the payload file is there and empty
ProcPayloadOpen(p) ==
    /\ procs[p].pc = "loop"
    /\ procs[p].i <= Len(procs[p].documents)
    /\ files' = [files EXCEPT ![procs[p].documents[procs[p].i].hash_] = Truncated]
    /\ procs' = [procs EXCEPT ![p].pc = "payload"]
    /\ UNCHANGED <<metadata_json, Others>>

\* f.write and the close of the file, l.223, then metadata_store.add, l.225
ProcPayloadWrite(p) ==
    /\ procs[p].pc = "payload"
    /\ LET document == procs[p].documents[procs[p].i]
       IN  /\ files' = [files EXCEPT ![document.hash_] =
                            Overwrite(@, serialize_document(document))]
           /\ procs' = [procs EXCEPT ![p] =
                 [@ EXCEPT !.pc = "loop", !.i = @ + 1,
                           !.metadata_store =
                               InMemoryStore_add(@, Artifact(document))]]
    /\ UNCHANGED <<metadata_json, Others>>

\* save: open(path, "w") has emptied metadata.json, nothing is written yet
ProcSaveOpen(p) ==
    /\ procs[p].pc = "loop"
    /\ procs[p].i > Len(procs[p].documents)
    /\ metadata_json' = Truncated
    /\ procs' = [procs EXCEPT ![p].pc = "saving"]
    /\ UNCHANGED <<files, Others>>

\* save: json.dump and the close of the file
ProcSaveDump(p) ==
    /\ procs[p].pc = "saving"
    /\ LET dumped == json_dump([artifacts |-> procs[p].metadata_store.artifacts])
       IN  IF dumped.status = "ok"
           THEN /\ metadata_json' = Overwrite(metadata_json, dumped.value)
                /\ procs' = [procs EXCEPT ![p].pc = "done"]
           ELSE /\ procs' = [procs EXCEPT ![p].pc = "raised"]
                /\ UNCHANGED metadata_json
    /\ UNCHANGED <<files, Others>>

(***************************************************************************)
(* Specifications.                                                         *)
(***************************************************************************)
\* the artifact layer under faults, and restarts
Next ==
    \/ \E documents \in Batches : \E fault \in Faults(documents) :
          Add(documents, fault)
    \/ \E root \in Roots : Reopen(root)

Spec == Init /\ [][Next]_vars

\* the metadata index and its queries
NextQuery ==
    \/ \E documents \in Batches : Add(documents, NoFault)
    \/ \E ids \in KeySeqs : ExistsById(ids)
    \/ \E uuids \in KeySeqs : ExistsByUuid(uuids)
    \/ \E selector \in Selectors : Select(selector)
    \/ SelectNext
    \/ \E selector \in Selectors : Remove(selector)
    \/ Return

SpecQuery == Init /\ [][NextQuery]_vars

\* the caching interceptor over the artifact layer
NextInterceptor ==
    \/ \E documents \in Inputs : TransformBegin(documents)
    \/ \E outputs \in TransformerOutputs : TransformMiss(outputs, NoFault)
    \/ TransformerRaises
    \/ TransformHit
    \/ TransformReturn

SpecInterceptor == Init /\ [][NextInterceptor]_vars

\* two writer processes on one root
NextWriters ==
    \E p \in Procs :
       \/ \E root \in Roots : ProcOpen(p, root)
       \/ ProcRead(p)
       \/ \E documents \in Batches : ProcAdd(p, documents)
       \/ ProcPayloadOpen(p)
       \/ ProcPayloadWrite(p)
       \/ ProcSaveOpen(p)
       \/ ProcSaveDump(p)

SpecWriters == Init /\ [][NextWriters]_vars

\* the metadata store of a layer used directly, and restarts
NextStore ==
    \/ \E artifact \in Artifacts : StoreAdd(artifact)
    \/ \E fault \in SaveFaults : StoreSave(fault)
    \/ \E root \in Roots : Reopen(root)

SpecStore == Init /\ [][NextStore]_vars

(***************************************************************************)
(* Properties.                                                             *)
(***************************************************************************)
Records == metadata_store.artifacts
RecordSet == Range(Records)

RECURSIVE Flatten(_)
Flatten(parts) ==
    IF parts = <<>> THEN <<>> ELSE Head(parts) \o Flatten(Tail(parts))

ReturnedTransform == lastOp.op = "transform_documents" /\ lastOp.status = "ok"

\* C1: transform_documents([D]) called twice in a row on one layer invokes the
\* transformer once in total, and the second call returns what the first did.
\* Stated of a second call whose predecessor, on the same single document,
\* invoked the transformer and returned the documents it gave.
C1_CacheHitAvoidsRecompute ==
    (/\ ReturnedTransform
     /\ Len(lastOp.args) = 1
     /\ lastOp.previous.given
     /\ Len(lastOp.previous.invoked) = 1
     /\ lastOp.previous.value # <<>>)
    => /\ lastOp.invoked = <<>>
       /\ lastOp.value = lastOp.previous.value

\* the clauses of a selector as the specification defines them
MatchesIds(a, selector) == selector.ids.given /\ a.custom_id \in selector.ids.values
MatchesHashes(a, selector) ==
    selector.hashes.given /\ a.uuid \in selector.hashes.values
MatchesParents(a, selector) ==
    /\ selector.parent_hashes.given
    /\ Range(a.parent_uuids) \cap selector.parent_hashes.values # {}
Matches(a, selector) ==
    MatchesIds(a, selector) \/ MatchesHashes(a, selector) \/ MatchesParents(a, selector)

\* C2: select returns the hash of an artifact iff one of the supplied clauses
\* matches it, the ids clause matching on custom_id (of the selects that return).
C2_SelectorOrSemantics ==
    (reply.op = "select" /\ reply.status = "ok")
    => Range(reply.value) = {a.uuid : a \in {b \in RecordSet : Matches(b, reply.args)}}

NoDuplicateHash(artifacts) ==
    \A i, j \in 1..Len(artifacts) : artifacts[i].uuid = artifacts[j].uuid => i = j

\* C3: the index, in memory and in its snapshot, holds at most one record per
\* content hash.
C3_IdempotentAdd ==
    /\ NoDuplicateHash(Records)
    /\ IsJson(metadata_json) => NoDuplicateHash(json_loads(metadata_json).artifacts)

\* C4: a payload stored under a hash is never replaced by a different payload.
C4_IntegrityRejection ==
    [][\A h \in Hashes :
          (IsPayload(files[h]) /\ IsPayload(files'[h])) => files'[h] = files[h]]_vars

\* C5: exists_by_id answers, position by position, whether some record of the
\* index has that custom_id.
C5_ExistsById ==
    reply.op = "exists_by_id"
    => /\ reply.status = "ok"
       /\ Len(reply.value) = Len(reply.args)
       /\ \A i \in 1..Len(reply.args) :
             reply.value[i] <=> (\E a \in RecordSet : a.custom_id = reply.args[i])

\* exists_by_id has answered TRUE and FALSE in one call, on an index whose
\* records do not all share their id
C5_Witness ==
    /\ reply.op = "exists_by_id"
    /\ Len(reply.args) = 2
    /\ reply.value = <<FALSE, TRUE>>
    /\ \E a, b \in RecordSet : a.custom_id # b.custom_id

\* C6: exists_by_uuid answers, position by position, whether some record of
\* the index has that uuid.
C6_ExistsByUuid ==
    reply.op = "exists_by_uuid"
    => /\ Len(reply.value) = Len(reply.args)
       /\ \A i \in 1..Len(reply.args) :
             reply.value[i] <=> (\E a \in RecordSet : a.uuid = reply.args[i])

\* C7: every document persisted on a miss has parent_hashes that are exactly
\* the hash of the input it was derived from.
C7_ProvenanceLinkage ==
    call.active
    => \A i \in 1..Len(call.parts) :
          ~call.existence[i]
          => \A k \in 1..Len(call.parts[i]) :
                call.parts[i][k].parent_hashes = <<call.documents[i].hash_>>

\* C8: what transform_documents has gathered, and what it returns, is the
\* concatenation in input order of what each input contributed.
C8_OutputOrder ==
    /\ call.active
       => /\ Len(call.parts) = call.i - 1
          /\ call.new_docs = Flatten(call.parts)
    /\ ReturnedTransform
       => /\ Len(lastOp.parts) = Len(lastOp.args)
          /\ lastOp.value = Flatten(lastOp.parts)

\* a call has returned after a miss that gave two documents and a hit that
\* resolved stored children
C8_Witness ==
    /\ ReturnedTransform
    /\ \E i, j \in 1..Len(lastOp.args) :
          /\ ~lastOp.existence[i] /\ Len(lastOp.parts[i]) = 2
          /\ lastOp.existence[j] /\ Len(lastOp.parts[j]) >= 1
          /\ lastOp.parts[i] # lastOp.parts[j]

Unmatched(artifacts, uuids) ==
    SelectSeq(artifacts, LAMBDA a : a.uuid \notin Range(uuids))

\* C9: remove(selector) deletes the records select(selector) matches and no
\* other, returns how many, and leaves the payload files alone.
C9_Remove ==
    [][(reply = NoReply /\ reply'.op = "remove")
       => LET matched == select(metadata_store, reply'.args).value
          IN  /\ reply'.status = "ok"
              /\ metadata_store'.artifacts = Unmatched(Records, matched)
              /\ reply'.value = <<Len(Records) - Len(metadata_store'.artifacts)>>
              /\ files' = files]_vars

\* C10: every hash a record of the index (in memory or in the snapshot)
\* refers to has its payload in the content store.
C10_IndexedHashHasPayload ==
    /\ \A a \in RecordSet : IsPayload(files[a.uuid])
    /\ IsJson(metadata_json)
       => \A a \in Range(json_loads(metadata_json).artifacts) : IsPayload(files[a.uuid])

HasParent(a, h) == h \in Range(a.parent_uuids)

\* C11: outside a running batch, every parent hash of a record of the index
\* is the uuid of a record of the index.
C11_NoDanglingProvenance ==
    ~call.active
    => \A a \in RecordSet : \A h \in Range(a.parent_uuids) :
          \E b \in RecordSet : b.uuid = h

\* the inputs of documents[1..k] for which exists was false, in order
RECURSIVE Misses(_, _, _)
Misses(documents, existence, k) ==
    IF k = 0 THEN <<>>
    ELSE IF existence[k] THEN Misses(documents, existence, k - 1)
    ELSE Append(Misses(documents, existence, k - 1), documents[k])

\* C14: when the transformer raises for an input, transform_documents ends
\* with that error at once: the transformer was called once for that input,
\* nothing is written for it, and what earlier inputs persisted stays.
C14_TransformerErrorPropagates ==
    [][(Looping /\ ~call'.active /\ lastOp'.status = "TransformerError")
       => /\ lastOp'.op = "transform_documents"
          /\ lastOp'.args = call.documents
          /\ lastOp'.value = <<>>
          /\ ~call.existence[call.i]
          /\ lastOp'.invoked = Misses(call.documents, call.existence, call.i)
          /\ files' = files
          /\ metadata_json' = metadata_json
          /\ metadata_store' = metadata_store
          /\ \A i \in 1..Len(call.parts) :
                ~call.existence[i]
                => \A k \in 1..Len(call.parts[i]) :
                      /\ Artifact(call.parts[i][k]) \in Range(metadata_store'.artifacts)
                      /\ IsPayload(files'[call.parts[i][k].hash_])]_vars

\* the transformer has raised for the second input of a call whose first
\* input was a miss that persisted documents
C14_Witness ==
    /\ lastOp.op = "transform_documents"
    /\ lastOp.status = "TransformerError"
    /\ Len(lastOp.parts) = 1
    /\ ~lastOp.existence[1]
    /\ lastOp.parts[1] # <<>>
    /\ Len(lastOp.invoked) = 2
    /\ \A k \in 1..Len(lastOp.parts[1]) : Artifact(lastOp.parts[1][k]) \in RecordSet

\* C15: select completes without error whichever clauses are absent.
C15_AbsentClausesNotEvaluated ==
    reply.op = "select" => reply.status = "ok"

\* C16: after an iteration that took the hit branch, the transformer was not
\* called for that input and what the input contributed is the stored
\* children of its hash: documents that list the hash as a parent, one for
\* each record of the index that does.
C16_CacheHitPath ==
    (call.active /\ call.i > 1 /\ call.existence[call.i - 1])
    => LET h == call.documents[call.i - 1].hash_
           part == call.parts[call.i - 1]
       IN  /\ call.invoked = Misses(call.documents, call.existence, call.i - 1)
           /\ \A k \in 1..Len(part) : h \in Range(part[k].parent_hashes)
           /\ {part[k].hash_ : k \in 1..Len(part)}
                 = {a.uuid : a \in {b \in RecordSet : HasParent(b, h)}}

\* C17: an input is skipped only if the index holds an output of it: a record
\* with the input's hash among its parents (stated right after the existence
\* check, when the index is the one that was consulted).
C17_SkipDecisionSound ==
    (call.active /\ call.i = 1)
    => \A k \in 1..Len(call.documents) :
          call.existence[k]
          => \E a \in RecordSet : HasParent(a, call.documents[k].hash_)

\* C18: a call that returned has invoked the transformer at most once for any
\* one document.
C18_AtMostOncePerCall ==
    ReturnedTransform
    => \A i, j \in 1..Len(lastOp.invoked) :
          lastOp.invoked[i] = lastOp.invoked[j] => i = j

\* C19: when add has returned, the snapshot holds the record list of the
\* index, and a layer opened on it answers exists_by_id and select as the
\* layer that added does; an add writes the snapshot only after its whole
\* batch is appended, so a snapshot it changes is cut short by a failing write
\* or is the record list the add ends with.
C19_WriteThrough ==
    /\ []((lastOp.op = "add" /\ lastOp.status = "ok")
          => /\ IsJson(metadata_json)
             /\ json_loads(metadata_json).artifacts = Records
             /\ from_file(metadata_json).status = "ok"
             /\ \A ids \in KeySeqs :
                   exists_by_id(from_file(metadata_json).value, ids)
                      = exists_by_id(metadata_store, ids)
             /\ \A selector \in Selectors :
                   select(from_file(metadata_json).value, selector)
                      = select(metadata_store, selector))
    /\ [][(lastOp'.op = "add" /\ metadata_json' # metadata_json)
          => \/ metadata_json' = Truncated
             \/ /\ lastOp'.status = "ok"
                /\ metadata_json' = json_dumps([artifacts |-> metadata_store'.artifacts])]_vars

\* an add has returned with two records or more in the index, one of them
\* with a parent, all of them in the snapshot
C19_Witness ==
    /\ lastOp.op = "add"
    /\ lastOp.status = "ok"
    /\ Len(Records) >= 2
    /\ \E a \in RecordSet : a.parent_uuids # <<>>
    /\ Len(json_loads(metadata_json).artifacts) = Len(Records)

\* the last record of the list whose field is k
Latest(artifacts, field, k) ==
    LET at == {i \in 1..Len(artifacts) : artifacts[i][field] = k}
    IN  artifacts[CHOOSE i \in at : \A j \in at : j <= i]

\* C20: the keys of the two indexes are the uuids and the custom_ids of the
\* record list, each entry is the latest record with its key, and an add only
\* appends to the list.
C20_IndexesScanEquivalent ==
    /\ [](/\ DOMAIN metadata_store.artifact_uuid = {a.uuid : a \in RecordSet}
          /\ DOMAIN metadata_store.artifact_ids = {a.custom_id : a \in RecordSet}
          /\ \A k \in DOMAIN metadata_store.artifact_uuid :
                metadata_store.artifact_uuid[k] = Latest(Records, "uuid", k)
          /\ \A k \in DOMAIN metadata_store.artifact_ids :
                metadata_store.artifact_ids[k] = Latest(Records, "custom_id", k))
    /\ [][lastOp'.op \in {"add", "metadata_store.add"}
          => /\ Len(metadata_store'.artifacts) >= Len(Records)
             /\ SubSeq(metadata_store'.artifacts, 1, Len(Records)) = Records]_vars

\* the layer was opened on a snapshot in which two records share a custom_id
\* and two share a uuid, after the adds that wrote them
C20_Witness ==
    /\ lastOp.op = "open"
    /\ lastOp.status = "ok"
    /\ \E i, j \in 1..Len(Records) :
          /\ i < j
          /\ Records[i].custom_id = Records[j].custom_id
          /\ Records[i] # Records[j]
          /\ metadata_store.artifact_ids[Records[j].custom_id] = Records[j]
    /\ \E i, j \in 1..Len(Records) :
          /\ i < j
          /\ Records[i].uuid = Records[j].uuid
          /\ metadata_store.artifact_uuid[Records[j].uuid] = Records[j]

\* C12: the text from_file has read from metadata.json is a complete snapshot
\* (not an empty file, not parts of two snapshots).
C12_AtomicSnapshot ==
    \A p \in Procs : procs[p].loaded = NotRead \/ IsJson(procs[p].loaded)

\* C13: once both processes have returned from add, the snapshot holds the
\* records of both.
C13_NoLostUpdate ==
    (\A p \in Procs : procs[p].pc = "done")
    => /\ IsJson(metadata_json)
       /\ \A p \in Procs : \A k \in 1..Len(procs[p].documents) :
             Artifact(procs[p].documents[k])
                \in Range(json_loads(metadata_json).artifacts)

====
